---- MODULE Spec2Model ----
(***************************************************************************)
(* Model of the PNG density patcher of cardprint: update_png_dpi in its    *)
(* two implementations, the direct in-place overwrite of                   *)
(* src/png_dpi_util.h and the atomic replace through a temporary file of   *)
(* src/unnamed/part_000, over a small file system whose calls may fail.    *)
(*                                                                         *)
(* Bytes are naturals 0..255 and files are sequences of bytes.  TLC's      *)
(* integers are 32-bit signed, so a uint32_t, a size_t and a pointer       *)
(* offset are pairs <<hi, lo>> of 16-bit halves (value hi * 2^16 + lo),    *)
(* and the operands of the double arithmetic are sequences of 15-bit       *)
(* limbs, least significant first.                                         *)
(***************************************************************************)
EXTENDS Integers, Sequences, FiniteSets, TLC

----------------------------------------------------------------------------
(* Fixed-width unsigned arithmetic.                                        *)

U16 == 2 ^ 16

\* A small natural as a wide number.
W(n) == <<n \div U16, n % U16>>

WAdd(a, b) ==
  LET lo == a[2] + b[2]
  IN  <<a[1] + b[1] + (lo \div U16), lo % U16>>

WLt(a, b) == a[1] < b[1] \/ (a[1] = b[1] /\ a[2] < b[2])

WLe(a, b) == a = b \/ WLt(a, b)

\* Reduction modulo 2^bits of a wide number below 2^47: the wrap of uint32_t
\* arithmetic, and of size_t and pointer arithmetic on a 32-bit build.
WWrap(a, bits) == IF bits = 32 THEN <<a[1] % U16, a[2]>> ELSE a

\* Bit i of a ^ b, in place.
XorBit(a, b, i) == ((((a \div (2 ^ i)) + (b \div (2 ^ i))) % 2) * (2 ^ i))

\* a ^ b on 16-bit values
Xor16(a, b) ==
    XorBit(a, b, 0) + XorBit(a, b, 1) + XorBit(a, b, 2) + XorBit(a, b, 3)
  + XorBit(a, b, 4) + XorBit(a, b, 5) + XorBit(a, b, 6) + XorBit(a, b, 7)
  + XorBit(a, b, 8) + XorBit(a, b, 9) + XorBit(a, b, 10) + XorBit(a, b, 11)
  + XorBit(a, b, 12) + XorBit(a, b, 13) + XorBit(a, b, 14) + XorBit(a, b, 15)

\* a ^ b on uint32_t
XorU32(a, b) == <<Xor16(a[1], b[1]), Xor16(a[2], b[2])>>

\* c >> 1 and c >> 8 on uint32_t
Shr1(c) == <<c[1] \div 2, (c[2] \div 2) + (c[1] % 2) * (2 ^ 15)>>

Shr8(c) == <<c[1] \div 256, (c[2] \div 256) + (c[1] % 256) * 256>>

AllOnes == <<U16 - 1, U16 - 1>>

----------------------------------------------------------------------------
(* Natural numbers of any size as sequences of limbs in base 2^15, least   *)
(* significant first, without leading zero limbs (the empty sequence is    *)
(* 0).  A product of two limbs stays below 2^30.                           *)

Base == 2 ^ 15

LimbBits == 15

RECURSIVE Norm(_)
Norm(a) ==
  IF a = <<>> THEN a
  ELSE IF a[Len(a)] = 0 THEN Norm(SubSeq(a, 1, Len(a) - 1)) ELSE a

RECURSIVE NatL(_)
NatL(n) == IF n = 0 THEN <<>> ELSE <<n % Base>> \o NatL(n \div Base)

RECURSIVE ToNat(_)
ToNat(a) == IF a = <<>> THEN 0 ELSE a[1] + Base * ToNat(Tail(a))

LimbAt(a, i) == IF i <= Len(a) THEN a[i] ELSE 0

RECURSIVE LAddFrom(_, _, _, _)
LAddFrom(a, b, i, carry) ==
  IF i > Len(a) /\ i > Len(b)
  THEN IF carry = 0 THEN <<>> ELSE <<carry>>
  ELSE LET s == LimbAt(a, i) + LimbAt(b, i) + carry
       IN  <<s % Base>> \o LAddFrom(a, b, i + 1, s \div Base)

LAdd(a, b) == LAddFrom(a, b, 1, 0)

RECURSIVE LMulSmallFrom(_, _, _, _)
LMulSmallFrom(a, m, i, carry) ==
  IF i > Len(a)
  THEN IF carry = 0 THEN <<>> ELSE <<carry>>
  ELSE LET t == a[i] * m + carry
       IN  <<t % Base>> \o LMulSmallFrom(a, m, i + 1, t \div Base)

\* a * m for a limb m
LMulSmall(a, m) == Norm(LMulSmallFrom(a, m, 1, 0))

\* a * Base^k
ShiftLimbs(a, k) == IF a = <<>> THEN a ELSE [i \in 1..k |-> 0] \o a

RECURSIVE LMulFrom(_, _, _)
LMulFrom(a, b, j) ==
  IF j > Len(b) THEN <<>>
  ELSE LAdd(LMulSmall(a, b[j]), ShiftLimbs(LMulFrom(a, b, j + 1), 1))

LMul(a, b) == LMulFrom(a, b, 1)

\* a * 2^s
LShl(a, s) == ShiftLimbs(LMulSmall(a, 2 ^ (s % LimbBits)), s \div LimbBits)

\* floor(a / 2^s)
LShr(a, s) ==
  LET q == s \div LimbBits
      r == s % LimbBits
  IN  IF q >= Len(a) THEN <<>>
      ELSE Norm([i \in 1..(Len(a) - q) |->
                  (a[i + q] \div (2 ^ r))
                  + (LimbAt(a, i + q + 1) % (2 ^ r)) * (2 ^ (LimbBits - r))])

\* a mod 2^s
LLow(a, s) ==
  LET q == s \div LimbBits
      r == s % LimbBits
  IN  IF q >= Len(a) THEN a
      ELSE Norm(SubSeq(a, 1, q) \o <<a[q + 1] % (2 ^ r)>>)

RECURSIVE SmallBitLen(_)
SmallBitLen(n) == IF n = 0 THEN 0 ELSE 1 + SmallBitLen(n \div 2)

BitLen(a) ==
  IF a = <<>> THEN 0 ELSE LimbBits * (Len(a) - 1) + SmallBitLen(a[Len(a)])

RECURSIVE LLtFrom(_, _, _)
LLtFrom(a, b, i) ==
  IF i = 0 THEN FALSE
  ELSE IF a[i] # b[i] THEN a[i] < b[i] ELSE LLtFrom(a, b, i - 1)

\* a < b
LLt(a, b) == Len(a) < Len(b) \/ (Len(a) = Len(b) /\ LLtFrom(a, b, Len(a)))

LLe(a, b) == a = b \/ LLt(a, b)

\* The digits d (most significant first) in base `base` as a number.
RECURSIVE LFromDigits(_, _, _)
LFromDigits(d, base, acc) ==
  IF d = <<>> THEN acc
  ELSE LFromDigits(Tail(d), base, LAdd(LMulSmall(acc, base), NatL(d[1])))

\* A number below 2^32 as a uint32_t, and back.
LToU32(a) == <<ToNat(LShr(a, 16)), ToNat(LLow(a, 16))>>

U32ToL(v) == LAdd(LShl(NatL(v[1]), 16), NatL(v[2]))

----------------------------------------------------------------------------
(* IEEE-754 binary64 arithmetic on positive values.  A double is held as   *)
(* the number of 2^-47 units it is worth: the literal 39.37007874 lies in  *)
(* [32, 64), so its 53-bit significand counts units of 2^(5-52), and every *)
(* double the code forms from it is a whole number of these units.         *)

FracBits == 47

DoubleBits == 53

\* Round to nearest, ties to even, to DoubleBits significant bits.
RoundToDouble(a) ==
  IF BitLen(a) <= DoubleBits THEN a
  ELSE LET s    == BitLen(a) - DoubleBits
           q    == LShr(a, s)
           rem  == LLow(a, s)
           half == LShl(<<1>>, s - 1)
           up   == LLt(half, rem) \/ (rem = half /\ q[1] % 2 = 1)
       IN  LShl(IF up THEN LAdd(q, <<1>>) ELSE q, s)

\* The double nearest to the literal 39.37007874: 0x1.3af5ebd7a9f58p+5.
Factor == LFromDigits(<<1, 3, 10, 15, 5, 14, 11, 13, 7, 10, 9, 15, 5, 8>>, 16, <<>>)

\* x + y of two doubles
DoubleAdd(x, y) == RoundToDouble(LAdd(x, y))

\* The product dpi * 39.37007874 as the code computes it: the exact product
\* of the int and the double factor, rounded once to a double.
DpiTimesFactor(dpi) == RoundToDouble(LMul(NatL(dpi), Factor))

\* 1.0, 0.5 and 4294967295.0
DoubleOne == LShl(<<1>>, FracBits)

DoubleHalf == LShl(<<1>>, FracBits - 1)

DoubleU32Max == LShl(U32ToL(AllOnes), FracBits)

\* (uint32_t)x of a double 0 <= x < 2^32: truncation.
DoubleToU32(x) == LToU32(LShr(x, FracBits))

----------------------------------------------------------------------------
(* Checksum engine, big-endian fields, density value (both files).         *)

PNG_SIG_BYTES == 8

PNG_SIG == <<137, 80, 78, 71, 13, 10, 26, 10>>

TypePHYs == <<112, 72, 89, 115>>

TypeIDAT == <<73, 68, 65, 84>>

TypeIEND == <<73, 69, 78, 68>>

\* 0xEDB88320
CrcPoly == <<60856, 33568>>

\* for (k = 0; k < 8; k++) c = (c & 1) ? (0xEDB88320U ^ (c >> 1)) : (c >> 1);
RECURSIVE CrcShiftLoop(_, _)
CrcShiftLoop(c, k) ==
  IF k = 0 THEN c
  ELSE CrcShiftLoop(IF c[2] % 2 = 1 THEN XorU32(CrcPoly, Shr1(c)) ELSE Shr1(c),
                    k - 1)

\* The table _png_crc_make_table leaves in _png_crc_table.
_png_crc_make_table == [n \in 0..255 |-> CrcShiftLoop(<<0, n>>, 8)]

_png_crc_table == _png_crc_make_table

\* crc = table[(crc ^ b) & 0xFF] ^ (crc >> 8)
CrcByteStep(crc, b) ==
  XorU32(_png_crc_table[Xor16(crc[2], b) % 256], Shr8(crc))

\* for (i = 0; i < len; i++) crc = ...: the register after the first n bytes
\* (c is bound to the register's value after n - 1 bytes, computed first).
RECURSIVE CrcByteLoop(_, _, _)
CrcByteLoop(buf, n, crc) ==
  IF n = 0 THEN crc
  ELSE CHOOSE r \in {CrcByteStep(c, buf[n]) : c \in {CrcByteLoop(buf, n - 1, crc)}} : TRUE

\* A wrong checksum: the seed is not inverted, so a chained call does not continue.
MutCrc32NoSeedXor(buf, crc) == XorU32(CrcByteLoop(buf, Len(buf), crc), AllOnes)

_png_crc32(buf, crc) == XorU32(CrcByteLoop(buf, Len(buf), XorU32(crc, AllOnes)), AllOnes)

_png_read_u32_be(b) == <<b[1] * 256 + b[2], b[3] * 256 + b[4]>>

_png_write_u32_be(v) == <<v[1] \div 256, v[1] % 256, v[2] \div 256, v[2] % 256>>

\* png_dpi_util.h: (uint32_t)(x + 0.5) between the clamps at 1 and 2^32 - 1.
_png_round_u32(x) ==
  IF LLe(x, DoubleOne) THEN <<0, 1>>
  ELSE IF LLe(DoubleU32Max, x) THEN AllOnes
  ELSE DoubleToU32(DoubleAdd(x, DoubleHalf))

\* png_dpi_util.h
_png_dpi_to_ppm(dpi) == _png_round_u32(DpiTimesFactor(IF dpi <= 0 THEN 1 ELSE dpi))

\* llround(x) of a double 0 < x <= 4294967295.0: nearest, ties away from zero.
LLRound(x) == LShr(LAdd(x, DoubleHalf), FracBits)

\* part_000: clamp at 4294967295.0, then (uint32_t)llround(ppm).
_png_dpi_to_ppm_atomic(dpi) ==
  LET ppm == DpiTimesFactor(IF dpi <= 0 THEN 1 ELSE dpi)
  IN  LToU32(LLRound(IF LLt(DoubleU32Max, ppm) THEN DoubleU32Max ELSE ppm))

\* The bytes _png_write_chunk writes when every fwrite succeeds.
_png_write_chunk(type, data) ==
  LET crc0 == _png_crc32(type, <<0, 0>>)
      crc  == IF Len(data) > 0 THEN _png_crc32(data, crc0) ELSE crc0
  IN  _png_write_u32_be(W(Len(data))) \o type \o data \o _png_write_u32_be(crc)

PhysPayload(ppm_x, ppm_y) ==
  _png_write_u32_be(ppm_x) \o _png_write_u32_be(ppm_y) \o <<1>>

\* part_000
_png_write_pHYs(ppm_x, ppm_y) == _png_write_chunk(TypePHYs, PhysPayload(ppm_x, ppm_y))

PhysChunkBytes == 4 + 4 + 9 + 4

\* png_dpi_util.h: [ok, buf] after the 21-byte chunk is written at dst_off
\* into a buffer of dst_cap bytes; dst_off is a wide number, buf the bytes
\* dst[0 .. dst_off).
_png_emit_pHYs_to_mem(buf, dst_cap, dst_off, ppm) ==
  IF WLt(dst_cap, WAdd(dst_off, W(4 + 4 + 9 + 4)))
  THEN [ok |-> FALSE, buf |-> buf]
  ELSE LET data == PhysPayload(ppm, ppm)
           crc  == _png_crc32(data, _png_crc32(TypePHYs, <<0, 0>>))
       IN  [ok  |-> TRUE,
            buf |-> buf \o _png_write_u32_be(W(9)) \o TypePHYs \o data
                        \o _png_write_u32_be(crc)]

----------------------------------------------------------------------------
(* State.                                                                  *)

VARIABLES
  fs,          \* the file system: existing path |-> bytes of the file
  impl,        \* "direct" (png_dpi_util.h) or "atomic" (part_000)
  size_bits,   \* width of size_t and of pointers in the build: 32 or 64
  pc,          \* position of the running call
  in_path,     \* argument: the source (direct: the one path)
  out_path,    \* argument: the destination (direct: the same path)
  dpi,         \* argument
  ret,         \* returned status, NotReturned while the call runs
  counter,     \* _png_build_temp_path's static counter
  tmp_path,    \* atomic: the temporary path
  in_data,     \* atomic: the bytes behind FILE *in; direct: PNG_IN_BUF[0 .. in_sz)
  in_pos,      \* atomic: read position of FILE *in
  p,           \* direct: the cursor, as a wide offset from PNG_IN_BUF
  out_buf,     \* direct: PNG_OUT_BUF[0 .. out_off)
  wrote_phys,  \* both: wrote_phys
  ppm,         \* both: ppm
  calls,       \* calls made so far
  faults,      \* failed system calls so far
  src,         \* history: the source file's bytes when the call began
  dest0,       \* history: the destination when the call began (<<bytes>>, or <<>> if absent)
  first_out,   \* history: the destination after the first call returned 0
  committed,   \* history: a rename of the temporary file succeeded in this call
  enc,         \* state of the encoder runs (SpecEnc)
  gen,         \* state of the page-generation loop of main (SpecPages)
  tab,         \* the checksum table and the threads computing checksums (SpecTable)
  par          \* two invocations running in parallel (SpecWriters, SpecShared)

vars == <<fs, impl, size_bits, pc, in_path, out_path, dpi, ret, counter,
          tmp_path, in_data, in_pos, p, out_buf, wrote_phys, ppm, calls,
          faults, src, dest0, first_out, committed, enc, gen, tab, par>>

----------------------------------------------------------------------------
(* Bounds and inputs.                                                      *)

\* Chunks after the signature of a generated input.
MaxChunks == 3

\* Whole chunks before a tail that is not a whole chunk.
MaxChunksBeforeTail == 2

\* Failed system calls per behaviour.
MaxFaults == 2

\* Calls of update_png_dpi per behaviour (the second repeats the first).
MaxCalls == 2

\* The compile-time input limit (32 MiB unless overridden before the
\* include), scaled to the inputs generated here.
MAX_PNG_SIZE == 64

Pid == 4242

NotReturned == -1

NULL == <<>>

PathA == <<"page01.png">>

PathB == <<"out.png">>

TypeTEXt == <<116, 69, 88, 116>>

\* A chunk as it lies in a file: length, type, data, stored trailer.
Chunk(type, data, crc) == _png_write_u32_be(W(Len(data))) \o type \o data \o crc

\* An ancillary chunk whose stored CRC is wrong.
TextChunk == Chunk(TypeTEXt, <<65>>, <<222, 173, 190, 239>>)

\* A stale density chunk (72 dpi), stored CRC wrong.
OldPhysChunk == Chunk(TypePHYs, <<0, 0, 11, 19, 0, 0, 11, 19, 1>>, <<0, 0, 0, 0>>)

IdatChunk == Chunk(TypeIDAT, <<120>>, <<1, 2, 3, 4>>)

IendChunk == Chunk(TypeIEND, <<>>, <<174, 66, 96, 130>>)

Palette == {TextChunk, OldPhysChunk, IdatChunk, IendChunk}

RECURSIVE Flatten(_)
Flatten(ss) == IF ss = <<>> THEN <<>> ELSE ss[1] \o Flatten(Tail(ss))

\* Chunks in any order, not only orders a PNG writer produces.
ChunkLists == UNION {[1..n -> Palette] : n \in 0..MaxChunks}

\* The whole chunks before a tail.
ShortChunkLists == UNION {[1..n -> Palette] : n \in 0..MaxChunksBeforeTail}

\* A chunk header alone: declared length and type.
Header(len, type) == _png_write_u32_be(len) \o type

\* Declared lengths L with L + 4 >= 2^32.
WrapLens == {<<U16 - 1, U16 - 4>>, <<U16 - 1, U16 - 1>>}

\* What follows the last complete chunk: nothing; the first 1..12 bytes of a
\* 13-byte chunk; a header declaring more data than is left; a header whose
\* declared length wraps, followed by 12 bytes.
Tails ==
  {<<>>}
  \cup {SubSeq(TextChunk, 1, k) : k \in 1..12}
  \cup {Header(W(200), TypeTEXt) \o <<1, 2, 3, 4, 5, 6>>}
  \cup {Header(l, t) \o IendChunk : l \in WrapLens, t \in {TypePHYs, TypeIDAT, TypeTEXt}}

BadSignatures ==
  {<<>>, SubSeq(PNG_SIG, 1, 7), <<137, 80, 78, 71, 13, 10, 26, 11>> \o IendChunk}

\* A signature and whole chunks; a signature, a few whole chunks and a tail
\* that is not a whole chunk; files without a signature.
Inputs ==
  {PNG_SIG \o Flatten(cs) : cs \in ChunkLists}
  \cup {PNG_SIG \o Flatten(cs) \o t : cs \in ShortChunkLists, t \in Tails \ {<<>>}}
  \cup BadSignatures

\* The dpi of the calls on files; the conversion is exercised over many more
\* values by the encoder specification below.
DpiValues == {300}

\* A file that is no PNG, lying at the destination before the call.
OldDest == <<1, 2, 3>>

\* The calls made: the implementation, its arguments, the build.
Configs ==
  {[impl |-> "direct", inp |-> PathA, outp |-> PathA, bits |-> b, dest |-> <<>>] : b \in {32, 64}}
  \cup {[impl |-> "atomic", inp |-> PathA, outp |-> PathA, bits |-> 64, dest |-> <<>>],
        [impl |-> "atomic", inp |-> PathA, outp |-> PathB, bits |-> 64, dest |-> <<OldDest>>],
        [impl |-> "atomic", inp |-> PathA, outp |-> NULL, bits |-> 64, dest |-> <<>>],
        [impl |-> "direct", inp |-> NULL, outp |-> NULL, bits |-> 64, dest |-> <<>>]}

\* The file at a path: <<bytes>>, or <<>> when there is none.
Content(f, path) == IF path \in DOMAIN f THEN <<f[path]>> ELSE <<>>

Put(f, path, bytes) == [q \in DOMAIN f \cup {path} |-> IF q = path THEN bytes ELSE f[q]]

\* An unlink that removes nothing.
MutUnlinkNothing(f, path) == f

\* unlink(path): no effect when there is no such file.
Unlink(f, path) == [q \in DOMAIN f \ {path} |-> f[q]]

\* rename(from, to) when it succeeds.
Rename(f, from, to) == Unlink(Put(f, to, f[from]), from)

EncOff == [stage |-> "off"]

GenOff == [stage |-> "off"]

TabOff == [stage |-> "off"]

ParOff == [stage |-> "off"]

----------------------------------------------------------------------------
(* The caller, and what every return does.                                 *)

args == <<impl, size_bits, in_path, out_path, dpi>>

CanFail == faults < MaxFaults

\* The call starts at its first statement.
Enter(f, inp) ==
  /\ pc' = IF impl' = "atomic" THEN "a_enter" ELSE "d_enter"
  /\ ret' = NotReturned
  /\ src' = IF inp \in DOMAIN f THEN f[inp] ELSE <<>>
  /\ dest0' = Content(f, out_path')
  /\ committed' = FALSE
  /\ in_data' = <<>>
  /\ in_pos' = 0
  /\ p' = W(0)
  /\ out_buf' = <<>>
  /\ wrote_phys' = FALSE
  /\ ppm' = <<0, 0>>

Init ==
  /\ \E c \in Configs, bytes \in Inputs, d \in DpiValues :
       /\ impl = c.impl
       /\ size_bits = c.bits
       /\ in_path = c.inp
       /\ out_path = c.outp
       /\ dpi = d
       /\ fs = IF c.dest = <<>> \/ c.outp = c.inp
               THEN (PathA :> bytes)
               ELSE (PathA :> bytes) @@ (PathB :> c.dest[1])
       /\ src = bytes
       /\ dest0 = IF c.outp = c.inp THEN <<bytes>> ELSE c.dest
       /\ pc = IF c.impl = "atomic" THEN "a_enter" ELSE "d_enter"
  /\ ret = NotReturned
  /\ counter = 0
  /\ tmp_path = NULL
  /\ in_data = <<>>
  /\ in_pos = 0
  /\ p = W(0)
  /\ out_buf = <<>>
  /\ wrote_phys = FALSE
  /\ ppm = <<0, 0>>
  /\ calls = 1
  /\ faults = 0
  /\ first_out = <<>>
  /\ committed = FALSE
  /\ enc = EncOff
  /\ gen = GenOff
  /\ tab = TabOff
  /\ par = ParOff

\* return status, the file system being f: the locals die with the call.
Return(f, status) ==
  /\ fs' = f
  /\ ret' = status
  /\ pc' = "done"
  /\ in_data' = <<>>
  /\ in_pos' = 0
  /\ p' = W(0)
  /\ out_buf' = <<>>
  /\ first_out' = IF status = 0 /\ calls = 1 THEN Content(f, out_path) ELSE first_out
  /\ UNCHANGED <<args, counter, tmp_path, wrote_phys, ppm, calls, src, dest0, enc, gen, tab, par>>

\* A step inside the call that touches neither the arguments nor the history.
Step(next) ==
  /\ pc' = next
  /\ UNCHANGED <<args, ret, calls, src, dest0, first_out, enc, gen, tab, par>>

\* The caller patches the file it has just patched once more, with the same dpi.
CallAgain ==
  /\ pc = "done"
  /\ ret = 0
  /\ calls < MaxCalls
  /\ calls' = calls + 1
  /\ in_path' = out_path
  /\ UNCHANGED <<impl, size_bits, out_path, dpi>>
  /\ Enter(fs, out_path)
  /\ UNCHANGED <<fs, counter, tmp_path, faults, first_out, enc, tab, par>>
  /\ UNCHANGED gen

\* A system call succeeds, or it fails.
Ok == UNCHANGED faults

Fault == CanFail /\ faults' = faults + 1

----------------------------------------------------------------------------
(* update_png_dpi(in_path, out_path, dpi) of part_000: atomic replace.     *)

\* snprintf(buf, bufsz, "%s.tmp-%u-%u", dest_path, pid, local) with local = ++counter
_png_build_temp_path(dest_path, local) == <<dest_path[1], Pid, local>>

\* line 157-160
AtomicEnter ==
  /\ pc = "a_enter"
  /\ Ok
  /\ UNCHANGED committed
  /\ IF in_path = NULL \/ out_path = NULL
     THEN Return(fs, 31)
     ELSE /\ counter' = counter + 1
          /\ tmp_path' = _png_build_temp_path(out_path, counter + 1)
          /\ Step("a_open_in")
          /\ UNCHANGED <<fs, in_data, in_pos, p, out_buf, wrote_phys, ppm>>

\* line 162-163: in = fopen(in_path, "rb")
AtomicOpenIn ==
  /\ pc = "a_open_in"
  /\ UNCHANGED committed
  /\ \/ /\ in_path \in DOMAIN fs
        /\ Ok
        /\ in_data' = fs[in_path]
        /\ in_pos' = 0
        /\ Step("a_open_tmp")
        /\ UNCHANGED <<fs, counter, tmp_path, p, out_buf, wrote_phys, ppm>>
     \/ /\ Fault
        /\ Return(fs, 1)

\* line 165-166: tmp = fopen(tmp_path, "wb+")
AtomicOpenTmp ==
  /\ pc = "a_open_tmp"
  /\ UNCHANGED committed
  /\ \/ /\ Ok
        /\ fs' = Put(fs, tmp_path, <<>>)
        /\ Step("a_read_sig")
        /\ UNCHANGED <<counter, tmp_path, in_data, in_pos, p, out_buf, wrote_phys, ppm>>
     \/ /\ Fault
        /\ Return(fs, 2)

\* line 168-172: the signature is read and compared
AtomicReadSig ==
  /\ pc = "a_read_sig"
  /\ UNCHANGED committed
  /\ \/ /\ Ok
        /\ IF Len(in_data) < PNG_SIG_BYTES
              \/ SubSeq(in_data, 1, PNG_SIG_BYTES) # PNG_SIG
           THEN Return(Unlink(fs, tmp_path), 3)
           ELSE /\ in_pos' = PNG_SIG_BYTES
                /\ Step("a_write_sig")
                /\ UNCHANGED <<fs, counter, tmp_path, in_data, p, out_buf, wrote_phys, ppm>>
     \/ /\ Fault
        /\ Return(Unlink(fs, tmp_path), 3)

\* line 173-179: the signature is written; ppm is computed
AtomicWriteSig ==
  /\ pc = "a_write_sig"
  /\ UNCHANGED committed
  /\ \/ /\ Ok
        /\ fs' = Put(fs, tmp_path, SubSeq(in_data, 1, PNG_SIG_BYTES))
        /\ wrote_phys' = FALSE
        /\ ppm' = _png_dpi_to_ppm_atomic(dpi)
        /\ Step("a_loop")
        /\ UNCHANGED <<counter, tmp_path, in_data, in_pos, p, out_buf>>
     \/ /\ Fault
        /\ Return(Unlink(fs, tmp_path), 20)

\* What one pass of the loop of line 181-213 finds at the read position.
AtomicAvail == Len(in_data) - in_pos

AtomicLen == _png_read_u32_be(SubSeq(in_data, in_pos + 1, in_pos + 4))

AtomicType == SubSeq(in_data, in_pos + 5, in_pos + 8)

\* fread(data, 1, len, in) == len
AtomicDataRead == AtomicLen[1] = 0 /\ AtomicLen[2] <= AtomicAvail - 8

\* fread(crc_be, 1, 4, in) == 4
AtomicCrcRead == AtomicDataRead /\ AtomicAvail - 8 - AtomicLen[2] >= 4

\* A density chunk before the first chunk copied, whatever its type.
MutInjectAnyChunk == ~wrote_phys

\* A density chunk before every IDAT, not only before the first.
MutInjectEveryIdat == AtomicType = TypeIDAT

\* line 199: !wrote_phys && memcmp(type, "IDAT", 4) == 0
AtomicInject == ~wrote_phys /\ AtomicType = TypeIDAT

\* line 181-213: one pass of the loop, every call succeeding
AtomicChunk ==
  /\ pc = "a_loop"
  /\ Ok
  /\ UNCHANGED committed
  /\ IF AtomicAvail < 8
     THEN \* line 182, 184: a short read of the length or of the type ends the loop
          /\ Step("a_close")
          /\ UNCHANGED <<fs, counter, tmp_path, in_data, in_pos, p, out_buf, wrote_phys, ppm>>
     ELSE IF AtomicLen # <<0, 0>> /\ ~AtomicDataRead
     THEN Return(Unlink(fs, tmp_path), 23)
     ELSE IF ~AtomicCrcRead
     THEN Return(Unlink(fs, tmp_path), 24)
     ELSE LET n     == AtomicLen[2]
              whole == SubSeq(in_data, in_pos + 1, in_pos + 12 + n)
          IN  IF AtomicType = TypePHYs
              THEN /\ in_pos' = in_pos + 12 + n
                   /\ Step("a_loop")
                   /\ UNCHANGED <<fs, counter, tmp_path, in_data, p, out_buf, wrote_phys, ppm>>
              ELSE /\ fs' = Put(fs, tmp_path,
                                fs[tmp_path]
                                \o (IF AtomicInject THEN _png_write_pHYs(ppm, ppm) ELSE <<>>)
                                \o whole)
                   /\ wrote_phys' = (wrote_phys \/ AtomicInject)
                   /\ in_pos' = in_pos + 12 + n
                   /\ Step(IF AtomicType = TypeIEND THEN "a_close" ELSE "a_loop")
                   /\ UNCHANGED <<counter, tmp_path, in_data, p, out_buf, ppm>>

\* The statuses a failing malloc, fread or fwrite of this pass returns.
AtomicChunkFailures ==
  (IF AtomicAvail >= 8 /\ AtomicLen # <<0, 0>> THEN {23} ELSE {})
  \cup (IF AtomicAvail >= 8 /\ AtomicDataRead THEN {24} ELSE {})
  \cup (IF AtomicAvail >= 8 /\ AtomicCrcRead /\ AtomicType # TypePHYs
        THEN {25, 26, 28}
             \cup (IF AtomicInject THEN {29} ELSE {})
             \cup (IF AtomicLen # <<0, 0>> THEN {27} ELSE {})
        ELSE {})

\* line 181-213: one pass of the loop in which a call fails
AtomicChunkFails ==
  /\ pc = "a_loop"
  /\ Fault
  /\ UNCHANGED committed
  /\ \/ \* fread of the length or of the type fails: the loop ends
        /\ Step("a_close")
        /\ UNCHANGED <<fs, counter, tmp_path, in_data, in_pos, p, out_buf, wrote_phys, ppm>>
     \/ \E status \in AtomicChunkFailures : Return(Unlink(fs, tmp_path), status)

\* line 215-216: fclose(in); fclose(tmp)
AtomicClose ==
  /\ pc = "a_close"
  /\ UNCHANGED committed
  /\ \/ /\ Ok
        /\ Step("a_replace")
        /\ UNCHANGED <<fs, counter, tmp_path, in_data, in_pos, p, out_buf, wrote_phys, ppm>>
     \/ /\ Fault
        /\ Return(Unlink(fs, tmp_path), 30)

\* _png_replace_file (POSIX): rename(src, dst) != 0 ? 1 : 0, applied to f
_png_replace_file(f, from, to, ok) ==
  IF ok THEN [rc |-> 0, fs |-> Rename(f, from, to)] ELSE [rc |-> 1, fs |-> f]

\* line 218: _png_replace_file(tmp_path, out_path)
AtomicReplace ==
  /\ pc = "a_replace"
  /\ \/ /\ Ok
        /\ committed' = TRUE
        /\ Return(_png_replace_file(fs, tmp_path, out_path, TRUE).fs, 0)
     \/ /\ Fault
        /\ UNCHANGED committed
        /\ fs' = _png_replace_file(fs, tmp_path, out_path, FALSE).fs
        /\ Step("a_unlink_out")
        /\ UNCHANGED <<counter, tmp_path, in_data, in_pos, p, out_buf, wrote_phys, ppm>>

\* line 219: PNG_UNLINK(out_path), its result ignored
AtomicUnlinkOut ==
  /\ pc = "a_unlink_out"
  /\ UNCHANGED committed
  /\ \/ /\ Ok
        /\ fs' = Unlink(fs, out_path)
     \/ /\ Fault
        /\ UNCHANGED fs
  /\ Step("a_rename_again")
  /\ UNCHANGED <<counter, tmp_path, in_data, in_pos, p, out_buf, wrote_phys, ppm>>

\* line 220-226: rename(tmp_path, out_path) once more
AtomicRenameAgain ==
  /\ pc = "a_rename_again"
  /\ \/ /\ Ok
        /\ committed' = TRUE
        /\ Return(Rename(fs, tmp_path, out_path), 0)
     \/ /\ Fault
        /\ UNCHANGED committed
        /\ Return(Unlink(fs, tmp_path), 32)

----------------------------------------------------------------------------
(* update_png_dpi(path, dpi) of png_dpi_util.h: direct overwrite.          *)

\* sizeof(PNG_OUT_BUF)
OutCap == W(MAX_PNG_SIZE + 64)

\* line 137
DirectEnter ==
  /\ pc = "d_enter"
  /\ Ok
  /\ UNCHANGED committed
  /\ IF in_path = NULL
     THEN Return(fs, 31)
     ELSE /\ Step("d_open")
          /\ UNCHANGED <<fs, counter, tmp_path, in_data, in_pos, p, out_buf, wrote_phys, ppm>>

\* line 140-141: f = fopen(path, "rb")
DirectOpen ==
  /\ pc = "d_open"
  /\ UNCHANGED committed
  /\ \/ /\ in_path \in DOMAIN fs
        /\ Ok
        /\ Step("d_read")
        /\ UNCHANGED <<fs, counter, tmp_path, in_data, in_pos, p, out_buf, wrote_phys, ppm>>
     \/ /\ Fault
        /\ Return(fs, 1)

\* line 142-149: the size is taken and the whole file read into PNG_IN_BUF
DirectRead ==
  /\ pc = "d_read"
  /\ UNCHANGED committed
  /\ \/ /\ Ok
        /\ IF Len(fs[in_path]) > MAX_PNG_SIZE
           THEN Return(fs, 4)
           ELSE /\ in_data' = fs[in_path]
                /\ Step("d_sig")
                /\ UNCHANGED <<fs, counter, tmp_path, in_pos, p, out_buf, wrote_phys, ppm>>
     \/ \* fseek, ftell or fread fails
        /\ Fault
        /\ Return(fs, 3)

\* line 152-162: the signature is verified and copied; ppm is computed
DirectSig ==
  /\ pc = "d_sig"
  /\ Ok
  /\ UNCHANGED committed
  /\ IF Len(in_data) < PNG_SIG_BYTES \/ SubSeq(in_data, 1, PNG_SIG_BYTES) # PNG_SIG
     THEN Return(fs, 3)
     ELSE /\ out_buf' = SubSeq(in_data, 1, PNG_SIG_BYTES)
          /\ p' = W(PNG_SIG_BYTES)
          /\ wrote_phys' = FALSE
          /\ ppm' = _png_dpi_to_ppm(dpi)
          /\ Step("d_loop")
          /\ UNCHANGED <<fs, counter, tmp_path, in_data, in_pos>>

\* end - PNG_IN_BUF
DirectEnd == W(Len(in_data))

\* while (p + 12 <= end)
DirectMore == WLe(WAdd(p, W(12)), DirectEnd)

\* The fields of the chunk at p, which lies inside the buffer when DirectMore.
DirectLen == _png_read_u32_be(SubSeq(in_data, p[2] + 1, p[2] + 4))

DirectType == SubSeq(in_data, p[2] + 5, p[2] + 8)

\* line 167: (size_t)(end - p) < len + 4, the sum taken in uint32_t
DirectOverrun(remaining, len) == WLt(W(remaining), WWrap(WAdd(len, W(4)), 32))

\* line 168-169: p += len; p += 4, from the data's offset, in the pointer's width
DirectAdvance(data_off, len) ==
  WWrap(WAdd(WAdd(W(data_off), len), W(4)), size_bits)

\* line 181: out_off + 4 + 4 + len + 4 > sizeof(PNG_OUT_BUF), in size_t
DirectNoRoom(out_off, len) ==
  WLt(OutCap, WWrap(WAdd(WAdd(W(out_off + 4 + 4), len), W(4)), size_bits))

\* A copy that leaves the stored trailer behind.
MutCopyCountNoTrailer(len) == WWrap(WAdd(W(4 + 4), len), 32)[2]

\* line 182-183: the count 4 + 4 + len + 4, taken in uint32_t
DirectCopyCount(len) == WWrap(WAdd(W(4 + 4), WAdd(len, W(4))), 32)[2]

\* No density chunk is ever written.
MutNeverInject(type) == FALSE

\* line 175: !wrote_phys && memcmp(type, "IDAT", 4) == 0
DirectInject(type) == ~wrote_phys /\ type = TypeIDAT

\* A loop that goes on after the terminator.
MutNoIendBreak(type) == "d_loop"

\* line 185: if (memcmp(type, "IEND", 4) == 0) break;
DirectAfterCopy(type) == IF type = TypeIEND THEN "d_open_out" ELSE "d_loop"

\* line 164-186: one test of the loop condition and one pass of the loop
DirectChunk ==
  /\ pc = "d_loop"
  /\ Ok
  /\ UNCHANGED committed
  /\ IF ~DirectMore
     THEN /\ Step("d_open_out")
          /\ UNCHANGED <<fs, counter, tmp_path, in_data, in_pos, p, out_buf, wrote_phys, ppm>>
     ELSE LET len    == DirectLen
              type   == DirectType
              data   == p[2] + 8
              inject == DirectInject(type)
              emit   == _png_emit_pHYs_to_mem(out_buf, OutCap, W(Len(out_buf)), ppm)
              buf1   == IF inject THEN emit.buf ELSE out_buf
              count  == DirectCopyCount(len)
          IN  IF DirectOverrun(Len(in_data) - data, len)
              THEN Return(fs, 21)
              ELSE IF type = TypePHYs
              THEN /\ p' = DirectAdvance(data, len)
                   /\ Step("d_loop")
                   /\ UNCHANGED <<fs, counter, tmp_path, in_data, in_pos, out_buf, wrote_phys, ppm>>
              ELSE IF inject /\ ~emit.ok
              THEN Return(fs, 22)
              ELSE IF DirectNoRoom(Len(buf1), len)
              THEN Return(fs, 23)
              ELSE /\ out_buf' = buf1 \o SubSeq(in_data, p[2] + 1, p[2] + count)
                   /\ wrote_phys' = (wrote_phys \/ inject)
                   /\ p' = DirectAdvance(data, len)
                   /\ Step(DirectAfterCopy(type))
                   /\ UNCHANGED <<fs, counter, tmp_path, in_data, in_pos, ppm>>

\* line 191-192: f = fopen(path, "wb") truncates the file
DirectOpenOut ==
  /\ pc = "d_open_out"
  /\ UNCHANGED committed
  /\ \/ /\ Ok
        /\ fs' = Put(fs, in_path, <<>>)
        /\ Step("d_write")
        /\ UNCHANGED <<counter, tmp_path, in_data, in_pos, p, out_buf, wrote_phys, ppm>>
     \/ /\ Fault
        /\ Return(fs, 2)

\* line 193: fwrite(PNG_OUT_BUF, 1, out_off, f); a failing write leaves a prefix
DirectWrite ==
  /\ pc = "d_write"
  /\ UNCHANGED committed
  /\ \/ /\ Ok
        /\ fs' = Put(fs, in_path, out_buf)
        /\ Step("d_close")
        /\ UNCHANGED <<counter, tmp_path, in_data, in_pos, p, out_buf, wrote_phys, ppm>>
     \/ /\ Fault
        /\ \E k \in {0, Len(out_buf) \div 2} :
             Return(Put(fs, in_path, SubSeq(out_buf, 1, k)), 24)

\* The result of fclose is not looked at.
MutCloseIgnored(closed) == 0

\* line 194-195: if (fclose(f) != 0) return 30; return 0;
DirectCloseStatus(closed) == IF closed THEN 0 ELSE 30

\* line 194-195: fclose(f)
DirectClose ==
  /\ pc = "d_close"
  /\ UNCHANGED committed
  /\ \/ /\ Ok
        /\ Return(fs, DirectCloseStatus(TRUE))
     \/ /\ Fault
        /\ Return(fs, DirectCloseStatus(FALSE))

----------------------------------------------------------------------------

Next ==
  \/ AtomicEnter \/ AtomicOpenIn \/ AtomicOpenTmp \/ AtomicReadSig
  \/ AtomicWriteSig \/ AtomicChunk \/ AtomicChunkFails \/ AtomicClose
  \/ AtomicReplace \/ AtomicUnlinkOut \/ AtomicRenameAgain
  \/ DirectEnter \/ DirectOpen \/ DirectRead \/ DirectSig \/ DirectChunk
  \/ DirectOpenOut \/ DirectWrite \/ DirectClose
  \/ CallAgain

Spec == Init /\ [][Next]_vars

----------------------------------------------------------------------------
(* The conversion and the chunk encoders on their own, over many dpi.      *)

MaxSmallDpi == 12

\* int dpi: a range around zero, the usual print densities, values whose
\* product lies at or next to a half, the clamp's edge, INT_MAX and -INT_MAX.
EncDpis ==
  (-3 .. MaxSmallDpi)
  \cup {72, 96, 150, 300, 600, 1200, 2400}
  \cup {24999873, 25000000, 75000000}
  \cup {109090908, 109090909, 109090910, 109090911}
  \cup {2147483647, -2147483647}

\* The variables of the calls on files, held still.
EncIdle ==
  /\ fs = <<>>
  /\ impl = "direct"
  /\ size_bits = 64
  /\ pc = "enc"
  /\ in_path = NULL
  /\ out_path = NULL
  /\ dpi = 0
  /\ ret = NotReturned
  /\ counter = 0
  /\ tmp_path = NULL
  /\ in_data = <<>>
  /\ in_pos = 0
  /\ p = W(0)
  /\ out_buf = <<>>
  /\ wrote_phys = FALSE
  /\ ppm = <<0, 0>>
  /\ calls = 0
  /\ faults = 0
  /\ src = <<>>
  /\ dest0 = <<>>
  /\ first_out = <<>>
  /\ committed = FALSE

EncVars ==
  <<fs, impl, size_bits, pc, in_path, out_path, dpi, ret, counter, tmp_path,
    in_data, in_pos, p, out_buf, wrote_phys, ppm, calls, faults, src, dest0,
    first_out, committed, gen, tab, par>>

InitEnc ==
  /\ EncIdle
  /\ gen = GenOff
  /\ tab = TabOff
  /\ par = ParOff
  /\ \E d \in EncDpis : enc = [stage |-> "dpi", dpi |-> d]

\* uint32_t ppm = _png_dpi_to_ppm(dpi), by each implementation
EncConvert ==
  /\ enc.stage = "dpi"
  /\ enc' = [stage |-> "ppm", dpi |-> enc.dpi,
             direct |-> _png_dpi_to_ppm(enc.dpi),
             atomic |-> _png_dpi_to_ppm_atomic(enc.dpi)]
  /\ UNCHANGED EncVars

\* _png_emit_pHYs_to_mem into an empty buffer, _png_write_pHYs into an empty file
EncEmit ==
  /\ enc.stage = "ppm"
  /\ enc' = [stage |-> "chunk", dpi |-> enc.dpi,
             direct |-> enc.direct, atomic |-> enc.atomic,
             mem |-> _png_emit_pHYs_to_mem(<<>>, W(PhysChunkBytes), W(0), enc.direct).buf,
             file |-> _png_write_pHYs(enc.atomic, enc.atomic)]
  /\ UNCHANGED EncVars

\* crc = _png_crc32(type, 4, 0); crc = _png_crc32(data, len, crc), as
\* _png_write_chunk chains them, beside one call over type and data together
EncCrc ==
  /\ enc.stage = "chunk"
  /\ LET payload == PhysPayload(enc.direct, enc.direct)
         first   == _png_crc32(TypePHYs, W(0))
     IN  enc' = [stage |-> "crc", dpi |-> enc.dpi,
                 direct |-> enc.direct, atomic |-> enc.atomic,
                 mem |-> enc.mem, file |-> enc.file,
                 first |-> first,
                 chained |-> _png_crc32(payload, first),
                 oneshot |-> _png_crc32(TypePHYs \o payload, W(0))]
  /\ UNCHANGED EncVars

NextEnc == EncConvert \/ EncEmit \/ EncCrc

SpecEnc == InitEnc /\ [][NextEnc]_vars

----------------------------------------------------------------------------
(* The density value and the density chunk (C9, C10).                      *)

\* 39.37007874 as the integer 3937007874 over DecimalScale
DecimalFactor == LFromDigits(<<3, 9, 3, 7, 0, 0, 7, 8, 7, 4>>, 10, <<>>)

DecimalScale == NatL(10 ^ 8)

\* Twice the exact product D' * 39.37007874, in units of 1 / DecimalScale.
TwiceExactProduct(d) ==
  LMulSmall(LMul(NatL(IF d > 0 THEN d ELSE 1), DecimalFactor), 2)

\* v is a nearest integer to the exact product (either neighbour at a tie),
\* or the exact product is beyond 2^32 - 1 and v is 2^32 - 1.
IsRoundedProduct(d, v) ==
  LET twice == TwiceExactProduct(d)
      twoV  == LMulSmall(LMul(U32ToL(v), DecimalScale), 2)
  IN  IF LLe(LMulSmall(LMul(U32ToL(AllOnes), DecimalScale), 2), twice)
      THEN v = AllOnes
      ELSE /\ LLe(twoV, LAdd(twice, DecimalScale))
           /\ LLe(twice, LAdd(twoV, DecimalScale))

\* C9: for every int dpi D both implementations compute the same
\* pixels-per-meter value, and it is round-to-nearest(D' * 39.37007874)
\* clamped to [1, 2^32 - 1], with D' = D when D > 0 and D' = 1 otherwise;
\* 300 gives 11811, 600 gives 23622, 1200 gives 47244, every D <= 0 gives 39.
C9_PpmIsRoundedProduct ==
  enc.stage \in {"ppm", "chunk", "crc"} =>
    /\ enc.direct = enc.atomic
    /\ IsRoundedProduct(enc.dpi, enc.direct)
    /\ (enc.dpi = 300 => enc.direct = W(11811))
    /\ (enc.dpi = 600 => enc.direct = W(23622))
    /\ (enc.dpi = 1200 => enc.direct = W(47244))
    /\ (enc.dpi <= 0 => enc.direct = W(39))

\* The reflected CRC-32 computed bit by bit, without the table.
RECURSIVE RefCrcShift(_, _)
RefCrcShift(reg, k) ==
  IF k = 0 THEN reg
  ELSE RefCrcShift(IF reg[2] % 2 = 1 THEN XorU32(Shr1(reg), <<60856, 33568>>)
                   ELSE Shr1(reg), k - 1)

RECURSIVE RefCrcReg(_, _)
RefCrcReg(bytes, n) ==
  IF n = 0 THEN AllOnes
  ELSE CHOOSE r \in {RefCrcShift(XorU32(c, <<0, bytes[n]>>), 8) :
                       c \in {RefCrcReg(bytes, n - 1)}} : TRUE

RefCrc(bytes) == XorU32(RefCrcReg(bytes, Len(bytes)), AllOnes)

\* The big-endian value of four bytes.
BigEndian(b) == <<b[1] * 256 + b[2], b[3] * 256 + b[4]>>

IsDensityChunk(c, v) ==
  /\ Len(c) = 21
  /\ SubSeq(c, 1, 4) = <<0, 0, 0, 9>>
  /\ SubSeq(c, 5, 8) = <<112, 72, 89, 115>>
  /\ BigEndian(SubSeq(c, 9, 12)) = v
  /\ BigEndian(SubSeq(c, 13, 16)) = v
  /\ c[17] = 1
  /\ BigEndian(SubSeq(c, 18, 21)) = RefCrc(SubSeq(c, 5, 17))

\* C10: the synthesized density chunk of either implementation is exactly 21
\* bytes: length 9, type 'pHYs', the pixels-per-meter value twice, unit 1, and
\* the reflected CRC-32 of the 13 bytes type + payload as trailer; the
\* chained _png_crc32 (type, then payload seeded with the first result)
\* equals the one-shot checksum of the concatenation.
C10_DensityChunkLayout ==
  /\ enc.stage \in {"chunk", "crc"} =>
       /\ IsDensityChunk(enc.mem, enc.direct)
       /\ IsDensityChunk(enc.file, enc.atomic)
  /\ enc.stage = "crc" =>
       /\ enc.chained = enc.oneshot
       /\ enc.oneshot = RefCrc(SubSeq(enc.mem, 5, 17))
       /\ enc.first = RefCrc(<<112, 72, 89, 115>>)

\* Both encoders have produced the chunk for 300 dpi and the checksums are taken.
C10_Witness ==
  /\ enc.stage = "crc"
  /\ enc.dpi = 300
  /\ enc.mem = <<0, 0, 0, 9, 112, 72, 89, 115, 0, 0, 46, 35, 0, 0, 46, 35, 1,
                 120, 165, 63, 118>>
  /\ enc.file = enc.mem
  /\ enc.chained = <<30885, 16246>>

----------------------------------------------------------------------------
(* The chunk stream of a file, read independently of either implementation. *)

SigOk(b) == Len(b) >= 8 /\ SubSeq(b, 1, 8) = <<137, 80, 78, 71, 13, 10, 26, 10>>

\* The chunk at offset pos is complete: 12 structural bytes and its data.
RefComplete(b, pos) ==
  /\ Len(b) - pos >= 12
  /\ BigEndian(SubSeq(b, pos + 1, pos + 4))[1] = 0
  /\ BigEndian(SubSeq(b, pos + 1, pos + 4))[2] <= Len(b) - pos - 12

RefSize(b, pos) == 12 + BigEndian(SubSeq(b, pos + 1, pos + 4))[2]

ChunkType(c) == SubSeq(c, 5, 8)

\* The complete chunks from offset pos on, up to and including the first IEND.
RECURSIVE RefChunksFrom(_, _)
RefChunksFrom(b, pos) ==
  IF ~RefComplete(b, pos) THEN <<>>
  ELSE LET c == SubSeq(b, pos + 1, pos + RefSize(b, pos))
       IN  IF ChunkType(c) = <<73, 69, 78, 68>> THEN <<c>>
           ELSE <<c>> \o RefChunksFrom(b, pos + RefSize(b, pos))

\* The logical chunk stream of a file with a signature.
RefChunks(b) == IF SigOk(b) THEN RefChunksFrom(b, 8) ELSE <<>>

\* The number of bytes left where the stream stops without an IEND.
RECURSIVE RefLeftover(_, _)
RefLeftover(b, pos) ==
  IF ~RefComplete(b, pos) THEN Len(b) - pos
  ELSE IF SubSeq(b, pos + 5, pos + 8) = <<73, 69, 78, 68>> THEN 0
  ELSE RefLeftover(b, pos + RefSize(b, pos))

\* A file with a signature whose last chunk is cut short.
Truncated(b) == SigOk(b) /\ RefLeftover(b, 8) > 0

\* A file with a signature that is whole chunks up to its end or up to an IEND.
WellFormed(b) == SigOk(b) /\ RefLeftover(b, 8) = 0

IsPhys(c) == ChunkType(c) = <<112, 72, 89, 115>>

IsIdat(c) == ChunkType(c) = <<73, 68, 65, 84>>

NonPhys(cs) == SelectSeq(cs, LAMBDA c : ~IsPhys(c))

HasIdat(cs) == \E i \in 1..Len(cs) : IsIdat(cs[i])

FirstIdat(cs) == CHOOSE i \in 1..Len(cs) : IsIdat(cs[i]) /\ \A j \in 1..(i - 1) : ~IsIdat(cs[j])

\* The file the call has left at its destination.
Output == fs[out_path]

\* A call has returned success and no system call of it or before it failed.
Patched == pc = "done" /\ ret = 0 /\ faults = 0

----------------------------------------------------------------------------
(* The claims about the calls on files.                                    *)

\* C1: under the atomic replace the destination is modified only by the
\* final successful rename: at every step before it and on every nonzero
\* return the file at out_path is byte-identical to its pre-call content.
C1_DestUntouchedBeforeRename ==
  (impl = "atomic" /\ pc # "enc" /\ out_path # NULL /\ ~committed) =>
    Content(fs, out_path) = dest0

\* C2: if the input's chunk stream has an IDAT chunk, the output's has
\* exactly one pHYs chunk, it is the synthesized one and it lies immediately
\* before the first IDAT chunk, whatever pHYs chunks the input had.
C2_ExactlyOnePhys ==
  (Patched /\ HasIdat(RefChunks(src))) =>
    LET o == RefChunks(Output)
    IN  /\ HasIdat(o)
        /\ Cardinality({i \in 1..Len(o) : IsPhys(o[i])}) = 1
        /\ FirstIdat(o) > 1
        /\ IsPhys(o[FirstIdat(o) - 1])
        /\ IsDensityChunk(o[FirstIdat(o) - 1], ppm)

\* An input with a stale pHYs chunk after the first of two IDAT chunks has
\* been patched: the density chunk stands once, before the first IDAT.
C2_Witness ==
  /\ Patched
  /\ src = PNG_SIG \o IdatChunk \o OldPhysChunk \o IdatChunk
  /\ Output = PNG_SIG
              \o <<0, 0, 0, 9, 112, 72, 89, 115, 0, 0, 46, 35, 0, 0, 46, 35, 1,
                   120, 165, 63, 118>>
              \o IdatChunk \o IdatChunk

\* The first call on existing paths has returned and no system call failed.
Returned ==
  pc = "done" /\ faults = 0 /\ calls = 1 /\ in_path # NULL /\ out_path # NULL

\* C3: if a chunk header cannot be read in full or a chunk's declared length
\* overruns the remaining input (1 to 11 leftover bytes, or a whole header
\* with too little data), the call returns a nonzero status and leaves the
\* destination untouched.
C3_TruncatedChunkAborts ==
  (Returned /\ Truncated(src)) =>
    /\ ret # 0
    /\ Content(fs, out_path) = dest0

\* The offset where the chunk stream of a file stops short of an IEND.
RECURSIVE RefStop(_, _)
RefStop(b, pos) ==
  IF ~RefComplete(b, pos) THEN pos
  ELSE IF SubSeq(b, pos + 5, pos + 8) = <<73, 69, 78, 68>> THEN Len(b)
  ELSE RefStop(b, pos + RefSize(b, pos))

\* The stream stops at a chunk that has its 12 structural bytes and whose
\* declared data and trailer extend past the end of the file.
DeclaredOverrun(b) ==
  /\ Truncated(b)
  /\ Len(b) - RefStop(b, 8) >= 12

\* C4: in the direct overwrite the read cursor never advances past the end
\* of the input buffer, and a chunk whose data plus trailer would extend past
\* the end is rejected with status 21, for every 32-bit declared length L,
\* those with L + 4 >= 2^32 included.
C4_OverrunRejected ==
  (impl = "direct" /\ pc # "enc") =>
    /\ WLe(p, DirectEnd)
    /\ (Returned /\ DeclaredOverrun(src) /\ Len(src) <= MAX_PNG_SIZE) => ret = 21

\* C5: for any input that fails signature validation or chunk-structure
\* validation the call returns a nonzero status and the destination is
\* byte-identical to its pre-call state, in both implementations.
C5_InvalidInputLeavesDest ==
  (Returned /\ (~SigOk(src) \/ Truncated(src))) =>
    /\ ret # 0
    /\ Content(fs, out_path) = dest0

\* C6: patching the already-patched file with the same dpi leaves a file
\* byte-identical to the result of the first patch.
C6_Idempotent ==
  (pc = "done" /\ calls = 2 /\ faults = 0 /\ ret = 0) =>
    Content(fs, out_path) = first_out

\* C7: for an input of whole chunks, the chunks other than pHYs of the
\* output's chunk stream are those of the input's, in the same order and byte
\* for byte, a wrong stored CRC included, and the output holds nothing but
\* the signature and its chunks.
C7_OrderPreserved ==
  (Patched /\ WellFormed(src)) =>
    /\ NonPhys(RefChunks(Output)) = NonPhys(RefChunks(src))
    /\ SubSeq(Output, 1, 8) = SubSeq(src, 1, 8)
    /\ Len(Output) = 8 + Len(Flatten(RefChunks(Output)))

\* A chunk with a wrong stored CRC, a stale pHYs chunk and an image chunk
\* have been patched: the tEXt chunk stands in the output with its wrong CRC.
C7_Witness ==
  /\ Patched
  /\ impl = "direct"
  /\ src = PNG_SIG \o TextChunk \o OldPhysChunk \o IdatChunk
  /\ NonPhys(RefChunks(Output)) = <<TextChunk, IdatChunk>>
  /\ SubSeq(Output, 17, 21) = <<65, 222, 173, 190, 239>>

\* C8: if the input's chunk stream has no IDAT chunk, the call succeeds, the
\* output has no pHYs chunk, and the output is the signature followed by the
\* input's chunks other than pHYs, verbatim (an input of whole chunks that
\* the implementation's size limit admits).
C8_NoAnchor ==
  (pc = "done" /\ faults = 0 /\ in_path # NULL /\ out_path # NULL
   /\ WellFormed(src) /\ ~HasIdat(RefChunks(src))
   /\ (impl = "direct" => Len(src) <= MAX_PNG_SIZE)) =>
    /\ ret = 0
    /\ Output = PNG_SIG \o Flatten(NonPhys(RefChunks(src)))
    /\ \A i \in 1..Len(RefChunks(Output)) : ~IsPhys(RefChunks(Output)[i])

\* An input without IDAT and with a stale pHYs chunk has been patched by the
\* atomic replace: the pHYs chunk is gone and none is injected.
C8_Witness ==
  /\ pc = "done"
  /\ ret = 0
  /\ faults = 0
  /\ impl = "atomic"
  /\ src = PNG_SIG \o TextChunk \o OldPhysChunk \o IendChunk
  /\ Output = PNG_SIG \o TextChunk \o IendChunk

----------------------------------------------------------------------------
(* The end of the scan (C11, C12).                                         *)

\* The input's chunk stream ends with an IEND chunk.
HasIend(b) ==
  /\ RefChunks(b) # <<>>
  /\ ChunkType(RefChunks(b)[Len(RefChunks(b))]) = <<73, 69, 78, 68>>

\* The offset just after the last chunk of the input's chunk stream.
StreamEnd(b) == 8 + Len(Flatten(RefChunks(b)))

\* The implementation admits the input's size (the direct one has a limit).
SizeAdmitted == impl = "direct" => Len(src) <= MAX_PNG_SIZE

\* The call runs on existing paths.
Running == pc \notin {"enc", "done"} /\ in_path # NULL /\ out_path # NULL

\* C11: once the first IEND chunk has been copied no further input is
\* consumed: the read cursor never passes the end of that chunk, the call
\* succeeds and the output ends with that IEND chunk, whatever bytes follow
\* it in the input.
C11_StopsAtIend ==
  HasIend(src) =>
    /\ (Running /\ impl = "atomic") => in_pos <= StreamEnd(src)
    /\ (Running /\ impl = "direct") => WLe(p, W(StreamEnd(src)))
    /\ (pc = "done" /\ faults = 0 /\ in_path # NULL /\ out_path # NULL
        /\ SizeAdmitted) =>
         /\ ret = 0
         /\ Len(Output) >= 20
         /\ SubSeq(Output, Len(Output) - 11, Len(Output))
              = <<0, 0, 0, 0, 73, 69, 78, 68, 174, 66, 96, 130>>
         /\ NonPhys(RefChunks(Output)) = NonPhys(RefChunks(src))
         /\ Len(Output) = StreamEnd(Output)

\* An IEND chunk followed by an IDAT chunk and a cut chunk has been patched
\* by the direct overwrite: the output is the signature and the IEND chunk.
C11_Witness ==
  /\ Patched
  /\ impl = "direct"
  /\ src = PNG_SIG \o IendChunk \o IdatChunk \o SubSeq(TextChunk, 1, 5)
  /\ Output = PNG_SIG \o IendChunk

\* The chunks the patch makes of a chunk stream: pHYs chunks dropped, the
\* density chunk for v put before the first IDAT chunk.
ExpectedChunks(cs, v) ==
  Flatten([i \in 1..Len(cs) |->
             IF IsPhys(cs[i]) THEN <<>>
             ELSE IF IsIdat(cs[i]) /\ i = FirstIdat(cs)
                  THEN <<0, 0, 0, 9, 112, 72, 89, 115>>
                       \o _png_write_u32_be(v) \o _png_write_u32_be(v) \o <<1>>
                       \o _png_write_u32_be(RefCrc(<<112, 72, 89, 115>>
                            \o _png_write_u32_be(v) \o _png_write_u32_be(v) \o <<1>>))
                       \o cs[i]
                  ELSE cs[i]])

\* C12: if the input is whole chunks and ends without an IEND chunk, the call
\* does not fail: it returns 0 and the destination holds the signature and
\* every chunk of the input, filtered and injected as usual.
C12_NoIendSucceeds ==
  (pc = "done" /\ faults = 0 /\ in_path # NULL /\ out_path # NULL
   /\ WellFormed(src) /\ ~HasIend(src) /\ SizeAdmitted) =>
    /\ ret = 0
    /\ Output = PNG_SIG \o ExpectedChunks(RefChunks(src), W(11811))

\* A stale pHYs chunk, a tEXt chunk and an IDAT chunk without IEND have been
\* patched by the atomic replace.
C12_Witness ==
  /\ Patched
  /\ impl = "atomic"
  /\ calls = 1
  /\ src = PNG_SIG \o OldPhysChunk \o TextChunk \o IdatChunk
  /\ Output = PNG_SIG \o TextChunk
              \o <<0, 0, 0, 9, 112, 72, 89, 115, 0, 0, 46, 35, 0, 0, 46, 35, 1,
                   120, 165, 63, 118>>
              \o IdatChunk

----------------------------------------------------------------------------
(* Statuses (C13, C14).                                                    *)

\* The positions at which the call writes, closes or renames its output.
CommitSteps ==
  {"a_write_sig", "a_close", "a_rename_again", "d_open_out", "d_write", "d_close"}

\* C13: the call returns 0 only when the destination holds the complete
\* assembled output (the direct one's PNG_OUT_BUF, the atomic one's closed
\* temporary file); a step at which a write of the output, its close or the
\* last rename fails returns a nonzero status, and a failing call inside the
\* atomic loop either returns a nonzero status or ends the loop.
C13_ZeroOnlyWhenComplete ==
  [][/\ (pc \notin {"done", "enc"} /\ ret' = 0) =>
          /\ out_path \in DOMAIN fs'
          /\ fs'[out_path] = (IF impl = "direct" THEN out_buf ELSE fs[tmp_path])
     /\ (pc \in CommitSteps /\ faults' = faults + 1) =>
          (pc' = "done" /\ ret' \notin {0, NotReturned})
     /\ (pc = "a_loop" /\ faults' = faults + 1) =>
          \/ (pc' = "done" /\ ret' \notin {0, NotReturned})
          \/ pc' = "a_close"
    ]_vars

\* The direct overwrite has failed to close the file it has written.
C13_Witness ==
  /\ pc = "done"
  /\ impl = "direct"
  /\ ret = 30
  /\ faults = 1
  /\ Content(fs, out_path) # dest0

\* C14: every nonzero status denotes one failure condition of one category:
\* the status returned for a short or wrong signature (3, a format failure)
\* is never returned when the signature is right, as it would be for a seek,
\* tell or read of the source that fails (an I/O failure).
C14_StatusOneCategory ==
  (pc = "done" /\ calls = 1 /\ in_path # NULL /\ out_path # NULL /\ ret = 3) =>
    ~SigOk(src)

----------------------------------------------------------------------------
(* The scan's progress (C19).                                              *)

\* C19: the chunk scan terminates for every input: each loop iteration
\* consumes at least 12 bytes, the cursor strictly increases and stays
\* within the input.
C19_ScanAdvancesWithinInput ==
  [][/\ (pc = "d_loop" /\ DirectMore /\ pc' # "done") =>
          /\ WLe(WAdd(p, W(12)), p')
          /\ WLe(p', DirectEnd)
     /\ (pc = "a_loop" /\ pc' = "a_loop") =>
          /\ in_pos + 12 <= in_pos'
          /\ in_pos' <= Len(in_data)
    ]_vars

----------------------------------------------------------------------------
(* main of the page generator: the loop that builds, saves and patches   *)
(* one page after another.  The drawing steps that touch neither the     *)
(* card slots nor the file (background, margin border, background lines, *)
(* gutter lines, rounded corners) are left out.                          *)

CARDS_PER_PAGE == 9

MaxCards == 10

\* sprintf(outputFilename, "%s%02d.png", outputPrefix, currPage+1)
PagePath(n) == <<"page", n, ".png">>

\* What IMG_SavePNG leaves in the file: the encoded page, or nothing of it
\* when the write fails (its result is not looked at).
SavedPages == {PNG_SIG \o IdatChunk \o IendChunk, <<>>}

\* CardPlacement(pos): the slots a call draws at
AddCardToPage(cards, pos) == cards \cup {pos}

DrawBlankCardBorder(borders, pos) == borders \cup {pos}

\* for (int j = cardsOnPageCount; j < 9; ++j)
BlankSlots(count) == count .. CARDS_PER_PAGE - 1

RECURSIVE DrawBlankBorders(_, _)
DrawBlankBorders(borders, slots) ==
  IF slots = {} THEN borders
  ELSE LET j == CHOOSE x \in slots : \A y \in slots : x <= y
       IN DrawBlankBorders(DrawBlankCardBorder(borders, j), slots \ {j})

PageCount(cardCount) ==
  (cardCount \div CARDS_PER_PAGE) + (IF cardCount % CARDS_PER_PAGE = 0 THEN 0 ELSE 1)

CallLocals ==
  <<ret, counter, tmp_path, in_data, in_pos, p, out_buf, wrote_phys, ppm,
    calls, faults, src, dest0, first_out, committed>>

InitPages ==
  /\ fs = <<>>
  /\ impl = "direct"
  /\ size_bits \in {32, 64}
  /\ pc = "page"
  /\ in_path = NULL
  /\ out_path = NULL
  /\ dpi \in DpiValues
  /\ ret = NotReturned
  /\ counter = 0
  /\ tmp_path = NULL
  /\ in_data = <<>>
  /\ in_pos = 0
  /\ p = W(0)
  /\ out_buf = <<>>
  /\ wrote_phys = FALSE
  /\ ppm = <<0, 0>>
  /\ calls = 0
  /\ faults = 0
  /\ src = <<>>
  /\ dest0 = <<>>
  /\ first_out = <<>>
  /\ committed = FALSE
  /\ enc = EncOff
  /\ tab = TabOff
  /\ par = ParOff
  /\ \E n \in 0 .. MaxCards :
       gen = [stage |-> "begin", cardCount |-> n, pageCount |-> PageCount(n),
              currPage |-> 0, i |-> 0, cardsOnPageCount |-> 0,
              cards |-> {}, borders |-> {}, log |-> <<>>]

\* while (currPage < pageCount): the page is cleared to its background
PageBegin ==
  /\ pc = "page"
  /\ gen.stage = "begin"
  /\ gen.currPage < gen.pageCount
  /\ gen' = [gen EXCEPT !.stage = "load", !.i = gen.currPage * CARDS_PER_PAGE,
                        !.cardsOnPageCount = 0, !.cards = {}, !.borders = {},
                        !.log = <<"Building page">>]
  /\ UNCHANGED <<fs, args, pc, CallLocals, enc, tab, par>>

\* the loop is left
PageExit ==
  /\ pc = "page"
  /\ gen.stage = "begin"
  /\ ~(gen.currPage < gen.pageCount)
  /\ gen' = [gen EXCEPT !.stage = "exit"]
  /\ UNCHANGED <<fs, args, pc, CallLocals, enc, tab, par>>

InCardLoop ==
  /\ gen.i < gen.cardCount
  /\ gen.i < (gen.currPage + 1) * CARDS_PER_PAGE

\* one turn of the card loop: LoadCardImage gives an image or NULL
PageLoadCard ==
  /\ pc = "page"
  /\ gen.stage = "load"
  /\ InCardLoop
  /\ \E loaded \in BOOLEAN :
       gen' = IF loaded
              THEN [gen EXCEPT !.log = Append(gen.log, "Adding"),
                               !.cards = AddCardToPage(gen.cards, gen.i % CARDS_PER_PAGE),
                               !.cardsOnPageCount = gen.cardsOnPageCount + 1,
                               !.i = gen.i + 1]
              ELSE [gen EXCEPT !.log = Append(gen.log, "Error reading"),
                               !.i = gen.i + 1]
  /\ UNCHANGED <<fs, args, pc, CallLocals, enc, tab, par>>

\* the blank positions get their inner border
PageBlankBorders ==
  /\ pc = "page"
  /\ gen.stage = "load"
  /\ ~InCardLoop
  /\ gen' = [gen EXCEPT !.stage = "save",
                        !.borders = DrawBlankBorders(gen.borders, BlankSlots(gen.cardsOnPageCount))]
  /\ UNCHANGED <<fs, args, pc, CallLocals, enc, tab, par>>

\* IMG_SavePNG(page, outputFilename); update_png_dpi(outputFilename, ppi) is entered
PageSave ==
  /\ pc = "page"
  /\ gen.stage = "save"
  /\ gen' = [gen EXCEPT !.stage = "patch"]
  /\ UNCHANGED <<impl, size_bits, dpi, counter, tmp_path, faults, first_out, enc, tab, par>>
  /\ calls' = 1
  /\ in_path' = PagePath(gen.currPage + 1)
  /\ out_path' = PagePath(gen.currPage + 1)
  /\ \E img \in SavedPages :
       /\ fs' = Put(fs, PagePath(gen.currPage + 1), img)
       /\ Enter(Put(fs, PagePath(gen.currPage + 1), img), PagePath(gen.currPage + 1))

\* the call has returned: SDL_RenderClear(renderer); currPage++
PageNext ==
  /\ pc = "done"
  /\ gen.stage = "patch"
  /\ gen' = [gen EXCEPT !.stage = "begin", !.currPage = gen.currPage + 1]
  /\ pc' = "page"
  /\ ret' = NotReturned
  /\ UNCHANGED <<fs, args, counter, tmp_path, in_data, in_pos, p, out_buf,
                 wrote_phys, ppm, calls, faults, src, dest0, first_out,
                 committed, enc, tab, par>>

NextPages ==
  \/ PageBegin \/ PageLoadCard \/ PageBlankBorders \/ PageSave \/ PageNext
  \/ PageExit
  \/ DirectEnter \/ DirectOpen \/ DirectRead \/ DirectSig \/ DirectChunk
  \/ DirectOpenOut \/ DirectWrite \/ DirectClose

SpecPages == InitPages /\ [][NextPages]_vars

\* C18: when update_png_dpi has returned a nonzero status for a page, the
\* loop's next step shows it: a line is printed for the page, or the loop is
\* left at once instead of going on as after a success.
C18_FailureVisible ==
  [][(pc = "done" /\ gen.stage = "patch" /\ ret \notin {0, NotReturned})
       => (gen'.log # gen.log \/ gen'.stage = "exit")]_vars

\* The slots 0..8 of the page being built
Slots == 0 .. CARDS_PER_PAGE - 1

\* C20: once the blank borders of a page are drawn, the slots with a border
\* are exactly the slots without a card image.
C20_BordersAtEmptySlots ==
  gen.stage \in {"save", "patch"} => gen.borders = Slots \ gen.cards

----------------------------------------------------------------------------
(* _png_crc32 called by two threads of one process.  _png_crc_ready and   *)
(* _png_crc_table are plain statics written and read with no atomic       *)
(* operation and no barrier between them: the stores of one entry after   *)
(* the other take effect in program order here, but the store             *)
(* _png_crc_ready = 1 is ordered against none of them, so it may take     *)
(* effect at any point of _png_crc_make_table.                            *)

MaxCrcLen == 1

CrcBytes == {0, 255}

CrcBufs == UNION {[1 .. n -> CrcBytes] : n \in 1 .. MaxCrcLen}

Threads == {1, 2}

TABLE_SIZE == 256

\* static storage starts zeroed
ZeroTable == [n \in 0 .. TABLE_SIZE - 1 |-> <<0, 0>>]

InitTable ==
  /\ EncIdle
  /\ enc = EncOff
  /\ gen = GenOff
  /\ par = ParOff
  /\ \E b \in [Threads -> CrcBufs] :
       tab = [stage |-> "run", ready |-> 0, table |-> ZeroTable,
              th |-> [t \in Threads |->
                        [at |-> "check", n |-> 0, flagged |-> FALSE, buf |-> b[t],
                         i |-> 0, crc |-> <<0, 0>>, got |-> <<>>]]]

TableVars == <<fs, args, pc, CallLocals, enc, gen, par>>

\* if (!_png_crc_ready) _png_crc_make_table(); crc ^= 0xFFFFFFFFU
TableCheck(t) ==
  /\ tab.stage = "run"
  /\ tab.th[t].at = "check"
  /\ tab' = IF tab.ready = 1
            THEN [tab EXCEPT !.th[t].at = "loop", !.th[t].crc = XorU32(<<0, 0>>, AllOnes)]
            ELSE [tab EXCEPT !.th[t].at = "make"]
  /\ UNCHANGED TableVars

\* _png_crc_table[n] = c
TableWrite(t) ==
  /\ tab.stage = "run"
  /\ tab.th[t].at = "make"
  /\ tab.th[t].n < TABLE_SIZE
  /\ tab' = [tab EXCEPT !.table[tab.th[t].n] = _png_crc_make_table[tab.th[t].n],
                        !.th[t].n = tab.th[t].n + 1]
  /\ UNCHANGED TableVars

\* when the store _png_crc_ready = 1 of thread t may take effect
ReadyStoreEnabled(t) == tab.th[t].at = "make"

\* _png_crc_ready = 1
TableSetReady(t) ==
  /\ tab.stage = "run"
  /\ tab.th[t].at = "make"
  /\ ~tab.th[t].flagged
  /\ ReadyStoreEnabled(t)
  /\ tab' = [tab EXCEPT !.ready = 1, !.th[t].flagged = TRUE]
  /\ UNCHANGED TableVars

\* _png_crc_make_table returns; crc ^= 0xFFFFFFFFU
TableMade(t) ==
  /\ tab.stage = "run"
  /\ tab.th[t].at = "make"
  /\ tab.th[t].n = TABLE_SIZE
  /\ tab.th[t].flagged
  /\ tab' = [tab EXCEPT !.th[t].at = "loop", !.th[t].crc = XorU32(<<0, 0>>, AllOnes)]
  /\ UNCHANGED TableVars

\* crc = _png_crc_table[(crc ^ buf[i]) & 0xFF] ^ (crc >> 8)
TableRead(t) ==
  /\ tab.stage = "run"
  /\ tab.th[t].at = "loop"
  /\ tab.th[t].i < Len(tab.th[t].buf)
  /\ LET idx == Xor16(tab.th[t].crc[2], tab.th[t].buf[tab.th[t].i + 1]) % 256
     IN tab' = [tab EXCEPT !.th[t].crc = XorU32(tab.table[idx], Shr8(tab.th[t].crc)),
                           !.th[t].i = tab.th[t].i + 1,
                           !.th[t].got = Append(tab.th[t].got, <<idx, tab.table[idx]>>)]
  /\ UNCHANGED TableVars

\* return crc ^ 0xFFFFFFFFU
TableReturn(t) ==
  /\ tab.stage = "run"
  /\ tab.th[t].at = "loop"
  /\ tab.th[t].i = Len(tab.th[t].buf)
  /\ tab' = [tab EXCEPT !.th[t].at = "ret", !.th[t].crc = XorU32(tab.th[t].crc, AllOnes)]
  /\ UNCHANGED TableVars

NextTable ==
  \E t \in Threads :
    \/ TableCheck(t) \/ TableWrite(t) \/ TableSetReady(t) \/ TableMade(t)
    \/ TableRead(t) \/ TableReturn(t)

SpecTable == InitTable /\ [][NextTable]_vars

----------------------------------------------------------------------------
(* Two invocations of the atomic-replace update_png_dpi on one            *)
(* destination, running at once: two threads of one process, which share  *)
(* the static counter of _png_build_temp_path, or two processes, which    *)
(* do not.  Files are inodes reached through names: an open stream keeps  *)
(* its inode and its own offset whatever happens to the name.             *)

WriterIds == {1, 2}

WriterDpi(w) == IF w = 1 THEN 300 ELSE 600

WriterInput == PNG_SIG \o IdatChunk \o IendChunk

\* snprintf(buf, bufsz, "%s.tmp-%u-%u", dest_path, pid, local)
TempPathOf(dest_path, pid, local) == <<dest_path[1], pid, local>>

\* bytes written through a stream whose offset is off
WriteAt(bytes, off, new) ==
  LET pad == IF off > Len(bytes)
             THEN bytes \o [k \in 1 .. off - Len(bytes) |-> 0]
             ELSE bytes
  IN  SubSeq(pad, 1, off) \o new
      \o (IF Len(pad) > off + Len(new)
          THEN SubSeq(pad, off + Len(new) + 1, Len(pad))
          ELSE <<>>)

WritersIdle ==
  /\ EncIdle
  /\ enc = EncOff
  /\ gen = GenOff
  /\ tab = TabOff

WritersVars == <<fs, args, pc, CallLocals, enc, gen, tab>>

InitWriters ==
  /\ WritersIdle
  /\ \E threads \in BOOLEAN, inplace \in BOOLEAN :
       par = [stage |-> "writers",
              names |-> IF inplace THEN (PathA :> 1) ELSE (PathA :> 1) @@ (PathB :> 2),
              data |-> (1 :> WriterInput) @@ (2 :> OldDest),
              next |-> 3,
              counter |-> [q \in WriterIds |-> 0],
              faults |-> 0,
              last |-> 0,
              w |-> [k \in WriterIds |->
                       [at |-> "enter", proc |-> IF threads THEN 1 ELSE k,
                        pid |-> IF threads THEN Pid ELSE Pid + k - 1,
                        dpi |-> WriterDpi(k), in_path |-> PathA,
                        out_path |-> IF inplace THEN PathA ELSE PathB,
                        reg |-> 0, tmp_path |-> NULL, in |-> 0, in_off |-> 0,
                        tmp |-> 0, tmp_off |-> 0, wrote_phys |-> FALSE,
                        ret |-> NotReturned, out |-> <<>>]]]

Writing(w) == par.stage = "writers" /\ par.w[w].at \notin {"done"}

WCanFail == par.faults < MaxFaults

\* a failing call: the streams are closed, tmp_path is unlinked, status returned
WAbort(w, status, faulted) ==
  par' = [par EXCEPT !.names = Unlink(par.names, par.w[w].tmp_path),
                     !.faults = IF faulted THEN par.faults + 1 ELSE par.faults,
                     !.w[w].at = "done", !.w[w].ret = status]

\* unsigned local = ++counter: the load
WriterCountLoad(w) ==
  /\ Writing(w)
  /\ par.w[w].at = "enter"
  /\ par' = [par EXCEPT !.w[w].reg = par.counter[par.w[w].proc], !.w[w].at = "count"]
  /\ UNCHANGED WritersVars

\* unsigned local = ++counter: the store; the temporary path is built
WriterCountStore(w) ==
  /\ Writing(w)
  /\ par.w[w].at = "count"
  /\ par' = [par EXCEPT !.counter[par.w[w].proc] = par.w[w].reg + 1,
                        !.w[w].tmp_path = TempPathOf(par.w[w].out_path, par.w[w].pid,
                                                    par.w[w].reg + 1),
                        !.w[w].at = "open_in"]
  /\ UNCHANGED WritersVars

\* in = fopen(in_path, "rb")
WriterOpenIn(w) ==
  /\ Writing(w)
  /\ par.w[w].at = "open_in"
  /\ \/ /\ par.w[w].in_path \in DOMAIN par.names
        /\ par' = [par EXCEPT !.w[w].in = par.names[par.w[w].in_path],
                              !.w[w].in_off = 0, !.w[w].at = "open_tmp"]
     \/ /\ par.w[w].in_path \notin DOMAIN par.names
        /\ par' = [par EXCEPT !.w[w].at = "done", !.w[w].ret = 1]
     \/ /\ WCanFail
        /\ par' = [par EXCEPT !.faults = par.faults + 1,
                              !.w[w].at = "done", !.w[w].ret = 1]
  /\ UNCHANGED WritersVars

\* tmp = fopen(tmp_path, "wb+"): the file is created, or truncated if it exists
WriterOpenTmp(w) ==
  /\ Writing(w)
  /\ par.w[w].at = "open_tmp"
  /\ \/ IF par.w[w].tmp_path \in DOMAIN par.names
        THEN par' = [par EXCEPT !.data[par.names[par.w[w].tmp_path]] = <<>>,
                                !.w[w].tmp = par.names[par.w[w].tmp_path],
                                !.w[w].tmp_off = 0, !.w[w].at = "read_sig"]
        ELSE par' = [par EXCEPT !.names = Put(par.names, par.w[w].tmp_path, par.next),
                                !.data = Put(par.data, par.next, <<>>),
                                !.next = par.next + 1,
                                !.w[w].tmp = par.next,
                                !.w[w].tmp_off = 0, !.w[w].at = "read_sig"]
     \/ /\ WCanFail
        /\ par' = [par EXCEPT !.faults = par.faults + 1,
                              !.w[w].at = "done", !.w[w].ret = 2]
  /\ UNCHANGED WritersVars

WriterAvail(w) == Len(par.data[par.w[w].in]) - par.w[w].in_off

WriterPeek(w, from, n) ==
  SubSeq(par.data[par.w[w].in], par.w[w].in_off + from, par.w[w].in_off + from + n - 1)

\* the signature is read and compared
WriterReadSig(w) ==
  /\ Writing(w)
  /\ par.w[w].at = "read_sig"
  /\ \/ IF WriterAvail(w) < PNG_SIG_BYTES \/ WriterPeek(w, 1, PNG_SIG_BYTES) # PNG_SIG
        THEN WAbort(w, 3, FALSE)
        ELSE par' = [par EXCEPT !.w[w].in_off = PNG_SIG_BYTES, !.w[w].at = "write_sig"]
     \/ WCanFail /\ WAbort(w, 3, TRUE)
  /\ UNCHANGED WritersVars

\* fwrite of bytes through tmp, consumed bytes of the input being done with
WriterPut(w, bytes, consumed, phys, next) ==
  par' = [par EXCEPT !.data[par.w[w].tmp] = WriteAt(par.data[par.w[w].tmp],
                                                    par.w[w].tmp_off, bytes),
                     !.w[w].tmp_off = par.w[w].tmp_off + Len(bytes),
                     !.w[w].out = par.w[w].out \o bytes,
                     !.w[w].wrote_phys = par.w[w].wrote_phys \/ phys,
                     !.w[w].in_off = par.w[w].in_off + consumed,
                     !.w[w].at = next]

\* the signature is written
WriterWriteSig(w) ==
  /\ Writing(w)
  /\ par.w[w].at = "write_sig"
  /\ \/ WriterPut(w, PNG_SIG, 0, FALSE, "loop")
     \/ WCanFail /\ WAbort(w, 20, TRUE)
  /\ UNCHANGED WritersVars

WriterLen(w) == _png_read_u32_be(WriterPeek(w, 1, 4))

WriterType(w) == WriterPeek(w, 5, 4)

WriterDataRead(w) == WriterLen(w)[1] = 0 /\ WriterLen(w)[2] <= WriterAvail(w) - 8

WriterCrcRead(w) == WriterDataRead(w) /\ WriterLen(w)[2] + 12 <= WriterAvail(w)

WriterInject(w) == ~par.w[w].wrote_phys /\ WriterType(w) = TypeIDAT

\* one pass of the loop; the density chunk and the copied chunk are written
\* in separate steps
WriterChunk(w) ==
  /\ Writing(w)
  /\ par.w[w].at = "loop"
  /\ \/ IF WriterAvail(w) < 8
        THEN par' = [par EXCEPT !.w[w].at = "close"]
        ELSE IF WriterLen(w) # <<0, 0>> /\ ~WriterDataRead(w)
        THEN WAbort(w, 23, FALSE)
        ELSE IF ~WriterCrcRead(w)
        THEN WAbort(w, 24, FALSE)
        ELSE LET n == WriterLen(w)[2]
                 v == _png_dpi_to_ppm_atomic(par.w[w].dpi)
             IN  IF WriterType(w) = TypePHYs
                 THEN par' = [par EXCEPT !.w[w].in_off = par.w[w].in_off + 12 + n]
                 ELSE IF WriterInject(w)
                 THEN WriterPut(w, _png_write_pHYs(v, v), 0, TRUE, "loop")
                 ELSE WriterPut(w, WriterPeek(w, 1, 12 + n), 12 + n, FALSE,
                                IF WriterType(w) = TypeIEND THEN "close" ELSE "loop")
     \/ /\ WCanFail
        /\ \E status \in {23, 24, 25, 26, 27, 28, 29} : WAbort(w, status, TRUE)
  /\ UNCHANGED WritersVars

\* fclose(in); fclose(tmp)
WriterClose(w) ==
  /\ Writing(w)
  /\ par.w[w].at = "close"
  /\ \/ par' = [par EXCEPT !.w[w].at = "replace"]
     \/ WCanFail /\ WAbort(w, 30, TRUE)
  /\ UNCHANGED WritersVars

\* rename(tmp_path, out_path) succeeds and the call returns 0
WriterRenamed(w) ==
  par' = [par EXCEPT !.names = Rename(par.names, par.w[w].tmp_path, par.w[w].out_path),
                     !.last = w, !.w[w].at = "done", !.w[w].ret = 0]

\* _png_replace_file(tmp_path, out_path): rename fails when tmp_path is gone
WriterReplace(w) ==
  /\ Writing(w)
  /\ par.w[w].at = "replace"
  /\ \/ /\ par.w[w].tmp_path \in DOMAIN par.names
        /\ WriterRenamed(w)
     \/ /\ par.w[w].tmp_path \notin DOMAIN par.names
        /\ par' = [par EXCEPT !.w[w].at = "unlink_out"]
     \/ /\ WCanFail
        /\ par' = [par EXCEPT !.faults = par.faults + 1, !.w[w].at = "unlink_out"]
  /\ UNCHANGED WritersVars

\* PNG_UNLINK(out_path)
WriterUnlinkOut(w) ==
  /\ Writing(w)
  /\ par.w[w].at = "unlink_out"
  /\ par' = [par EXCEPT !.names = Unlink(par.names, par.w[w].out_path),
                        !.w[w].at = "rename_again"]
  /\ UNCHANGED WritersVars

\* rename(tmp_path, out_path) once more; PNG_UNLINK(tmp_path) and 32 if it fails
WriterRenameAgain(w) ==
  /\ Writing(w)
  /\ par.w[w].at = "rename_again"
  /\ \/ /\ par.w[w].tmp_path \in DOMAIN par.names
        /\ WriterRenamed(w)
     \/ /\ par.w[w].tmp_path \notin DOMAIN par.names
        /\ WAbort(w, 32, FALSE)
     \/ WCanFail /\ WAbort(w, 32, TRUE)
  /\ UNCHANGED WritersVars

NextWriters ==
  \E w \in WriterIds :
    \/ WriterCountLoad(w) \/ WriterCountStore(w) \/ WriterOpenIn(w)
    \/ WriterOpenTmp(w) \/ WriterReadSig(w) \/ WriterWriteSig(w)
    \/ WriterChunk(w) \/ WriterClose(w) \/ WriterReplace(w)
    \/ WriterUnlinkOut(w) \/ WriterRenameAgain(w)

SpecWriters == InitWriters /\ [][NextWriters]_vars

WriterOpen(w) ==
  par.w[w].at \in {"read_sig", "write_sig", "loop", "close"}

DestOf(w) == par.w[w].out_path

\* C15: two writers on one destination have distinct temporary paths, never
\* hold the same temporary file open, and once both have returned 0 the
\* destination holds exactly the bytes produced by the one that renamed last.
C15_WritersIndependent ==
  /\ (par.w[1].tmp_path # NULL /\ par.w[2].tmp_path # NULL)
       => par.w[1].tmp_path # par.w[2].tmp_path
  /\ (WriterOpen(1) /\ WriterOpen(2)) => par.w[1].tmp # par.w[2].tmp
  /\ (par.w[1].at = "done" /\ par.w[2].at = "done"
      /\ par.w[1].ret = 0 /\ par.w[2].ret = 0)
       => /\ DestOf(1) \in DOMAIN par.names
          /\ par.data[par.names[DestOf(1)]] = par.w[par.last].out

----------------------------------------------------------------------------
(* Two invocations of the direct update_png_dpi on different files, in    *)
(* two threads of one process (64-bit build, every system call            *)
(* succeeding).  PNG_IN_BUF and PNG_OUT_BUF are file-scope statics: both  *)
(* invocations read and write the same two arrays; in_sz, p, out_off and  *)
(* wrote_phys are locals of each.                                         *)

SharedInputs ==
  {PNG_SIG \o IdatChunk \o IendChunk,
   PNG_SIG \o TextChunk \o IdatChunk \o IendChunk,
   PNG_SIG \o OldPhysChunk \o IendChunk}

SharedPath(t) == IF t = 1 THEN PathA ELSE PathB

\* n bytes of a static array from offset from on (static storage starts zeroed)
ArrayRead(buf, from, n) ==
  [k \in 1 .. n |-> IF from + k <= Len(buf) THEN buf[from + k] ELSE 0]

InitShared ==
  /\ WritersIdle
  /\ \E b \in [Threads -> SharedInputs] :
       par = [stage |-> "shared",
              files |-> (PathA :> b[1]) @@ (PathB :> b[2]),
              PNG_IN_BUF |-> <<>>,
              PNG_OUT_BUF |-> <<>>,
              th |-> [t \in Threads |->
                        [at |-> "read", path |-> SharedPath(t), src |-> b[t],
                         dpi |-> 300, in_sz |-> 0, p |-> W(0), out_off |-> 0,
                         wrote_phys |-> FALSE, ret |-> NotReturned]]]

SharedAt(t, at) == par.stage = "shared" /\ par.th[t].at = at

SharedReturn(t, status) ==
  par' = [par EXCEPT !.th[t].at = "done", !.th[t].ret = status]

\* line 140-149: the file is opened and read whole into PNG_IN_BUF
SharedRead(t) ==
  /\ SharedAt(t, "read")
  /\ LET bytes == par.files[par.th[t].path]
     IN  IF Len(bytes) > MAX_PNG_SIZE
         THEN SharedReturn(t, 4)
         ELSE par' = [par EXCEPT !.PNG_IN_BUF = WriteAt(par.PNG_IN_BUF, 0, bytes),
                                 !.th[t].in_sz = Len(bytes),
                                 !.th[t].at = "sig"]
  /\ UNCHANGED WritersVars

\* line 152-162: the signature is verified and copied to PNG_OUT_BUF
SharedSig(t) ==
  /\ SharedAt(t, "sig")
  /\ IF par.th[t].in_sz < PNG_SIG_BYTES
        \/ ArrayRead(par.PNG_IN_BUF, 0, PNG_SIG_BYTES) # PNG_SIG
     THEN SharedReturn(t, 3)
     ELSE par' = [par EXCEPT !.PNG_OUT_BUF = WriteAt(par.PNG_OUT_BUF, 0,
                                               ArrayRead(par.PNG_IN_BUF, 0, PNG_SIG_BYTES)),
                             !.th[t].out_off = PNG_SIG_BYTES,
                             !.th[t].p = W(PNG_SIG_BYTES),
                             !.th[t].wrote_phys = FALSE,
                             !.th[t].at = "loop"]
  /\ UNCHANGED WritersVars

\* line 164-186: one test of the loop condition and one pass of the loop
SharedChunk(t) ==
  /\ SharedAt(t, "loop")
  /\ LET me     == par.th[t]
         off    == me.p[2]
         len    == _png_read_u32_be(ArrayRead(par.PNG_IN_BUF, off, 4))
         type   == ArrayRead(par.PNG_IN_BUF, off + 4, 4)
         inject == ~me.wrote_phys /\ type = TypeIDAT
         emit   == _png_emit_pHYs_to_mem(<<>>, OutCap, W(me.out_off), _png_dpi_to_ppm(me.dpi))
         off1   == IF inject THEN me.out_off + Len(emit.buf) ELSE me.out_off
         buf1   == IF inject THEN WriteAt(par.PNG_OUT_BUF, me.out_off, emit.buf)
                   ELSE par.PNG_OUT_BUF
         count  == DirectCopyCount(len)
     IN  IF ~WLe(WAdd(me.p, W(12)), W(me.in_sz))
         THEN par' = [par EXCEPT !.th[t].at = "write"]
         ELSE IF DirectOverrun(me.in_sz - (off + 8), len)
         THEN SharedReturn(t, 21)
         ELSE IF type = TypePHYs
         THEN par' = [par EXCEPT !.th[t].p = DirectAdvance(off + 8, len)]
         ELSE IF inject /\ ~emit.ok
         THEN SharedReturn(t, 22)
         ELSE IF DirectNoRoom(off1, len)
         THEN SharedReturn(t, 23)
         ELSE par' = [par EXCEPT !.PNG_OUT_BUF = WriteAt(buf1, off1,
                                                   ArrayRead(par.PNG_IN_BUF, off, count)),
                                 !.th[t].out_off = off1 + count,
                                 !.th[t].wrote_phys = me.wrote_phys \/ inject,
                                 !.th[t].p = DirectAdvance(off + 8, len),
                                 !.th[t].at = IF type = TypeIEND THEN "write" ELSE "loop"]
  /\ UNCHANGED WritersVars

\* line 191-195: the file is truncated, PNG_OUT_BUF written to it, 0 returned
SharedWrite(t) ==
  /\ SharedAt(t, "write")
  /\ par' = [par EXCEPT !.files[par.th[t].path] = ArrayRead(par.PNG_OUT_BUF, 0, par.th[t].out_off),
                        !.th[t].at = "done", !.th[t].ret = 0]
  /\ UNCHANGED WritersVars

NextShared ==
  \E t \in Threads : SharedRead(t) \/ SharedSig(t) \/ SharedChunk(t) \/ SharedWrite(t)

SpecShared == InitShared /\ [][NextShared]_vars

\* C17: an invocation that has returned gave the status and left in its file
\* the bytes it gives when it runs alone, whatever the other invocation did.
C17_InvocationsIndependent ==
  \A t \in Threads :
    SharedAt(t, "done") =>
      /\ par.th[t].ret = 0
      /\ par.files[par.th[t].path]
           = PNG_SIG \o ExpectedChunks(RefChunks(par.th[t].src), W(11811))

----------------------------------------------------------------------------
----------------------------------------------------------------------------
\* The steps of the direct update_png_dpi at which PNG_OUT_BUF is being
\* assembled or written out
DirectAssembling == {"d_loop", "d_open_out", "d_write", "d_close"}

\* C22: in the direct update_png_dpi the output offset is at most the input
\* bytes consumed plus the 21 bytes of the density chunk, hence at most the
\* input size plus 21 and within PNG_OUT_BUF, and neither 22 nor 23 is returned.
C22_OutputFitsBuffer ==
  (impl = "direct" /\ in_path # NULL) =>
    /\ pc \in DirectAssembling =>
         /\ WLe(W(Len(out_buf)), WAdd(p, W(PhysChunkBytes)))
         /\ Len(out_buf) <= Len(in_data) + PhysChunkBytes
         /\ WLe(W(Len(out_buf)), OutCap)
    /\ pc = "done" => ret \notin {22, 23}

----------------------------------------------------------------------------
(* Both implementations on the same bytes: the direct update_png_dpi(path, *)
(* dpi) patches one copy of the input in place, then the atomic           *)
(* update_png_dpi(path, path, dpi) patches a second copy in place; par    *)
(* keeps what the first call returned and committed.                      *)

InitBoth ==
  /\ \E bytes \in Inputs, d \in DpiValues, bits \in {32, 64} :
       /\ size_bits = bits
       /\ dpi = d
       /\ fs = (PathA :> bytes) @@ (PathB :> bytes)
       /\ src = bytes
       /\ dest0 = <<bytes>>
  /\ impl = "direct"
  /\ in_path = PathA
  /\ out_path = PathA
  /\ pc = "d_enter"
  /\ ret = NotReturned
  /\ counter = 0
  /\ tmp_path = NULL
  /\ in_data = <<>>
  /\ in_pos = 0
  /\ p = W(0)
  /\ out_buf = <<>>
  /\ wrote_phys = FALSE
  /\ ppm = <<0, 0>>
  /\ calls = 1
  /\ faults = 0
  /\ first_out = <<>>
  /\ committed = FALSE
  /\ enc = EncOff
  /\ gen = GenOff
  /\ tab = TabOff
  /\ par = [stage |-> "direct"]

\* the direct call has returned: the atomic call is made on the second copy
BothSwitch ==
  /\ pc = "done"
  /\ par.stage = "direct"
  /\ par' = [stage |-> "atomic", ret |-> ret, out |-> Content(fs, PathA)]
  /\ impl' = "atomic"
  /\ in_path' = PathB
  /\ out_path' = PathB
  /\ Enter(fs, PathB)
  /\ UNCHANGED <<fs, size_bits, dpi, counter, tmp_path, calls, faults, first_out,
                 enc, gen, tab>>

NextBoth ==
  \/ DirectEnter \/ DirectOpen \/ DirectRead \/ DirectSig \/ DirectChunk
  \/ DirectOpenOut \/ DirectWrite \/ DirectClose
  \/ BothSwitch
  \/ AtomicEnter \/ AtomicOpenIn \/ AtomicOpenTmp \/ AtomicReadSig
  \/ AtomicWriteSig \/ AtomicChunk \/ AtomicChunkFails \/ AtomicClose
  \/ AtomicReplace \/ AtomicUnlinkOut \/ AtomicRenameAgain

SpecBoth == InitBoth /\ [][NextBoth]_vars

\* C21: with no failing system call, the atomic call returns 0 exactly when
\* the direct call on the same bytes and dpi returned 0, and then both have
\* committed the same bytes.
C21_Interchangeable ==
  (par.stage = "atomic" /\ pc = "done" /\ faults = 0) =>
    /\ (ret = 0) <=> (par.ret = 0)
    /\ ret = 0 => Content(fs, PathB) = par.out

====
